---- MODULE Spec2Model ----
(***************************************************************************)
(* ReactAgent.invoke (src/agent.py): the tool-orchestration loop of the    *)
(* travel planning assistant.  One run of invoke is modelled: the          *)
(* completion capability (self.llm.invoke) and the tool adapters           *)
(* (self.tools[action].run) are the environment, every answer they can     *)
(* give is a nondeterministic input of the pass that consumes it.          *)
(*                                                                         *)
(* A completion response is a sequence of tokens (markers, words, white    *)
(* space, punctuation); the parsing operators below work on the tokens     *)
(* the way the source's substring tests and regular expressions work on    *)
(* the characters.                                                         *)
(*                                                                         *)
(* full_prompt is written by the loop and read only by the completion      *)
(* capability, whose answer is unconstrained: the model keeps the number   *)
(* of segments appended to it and the segment appended last; the whole     *)
(* text, segment after segment, is kept by SpecTranscript.                 *)
(*                                                                         *)
(* The pure functions (the extraction of the final answer and of the tool  *)
(* input, the currency conversion, the filter of the calculator, the       *)
(* destination lookup, the suggestion of the next tool) have               *)
(* specifications of their own, which draw an argument in arg and apply    *)
(* the function into out.                                                  *)
(* Two interleaved calls of invoke on one agent are the specification      *)
(* SpecTwoRuns, on frames and solo.                                        *)
(***************************************************************************)
EXTENDS Integers, Sequences, FiniteSets, TLC

VARIABLES iteration, required_tools, tools_used, tool_results,
          tool_calls_log, full_prompt, pc, ret, llm_calls, pass,
          arg, out, frames, solo

vars == <<iteration, required_tools, tools_used, tool_results,
          tool_calls_log, full_prompt, pc, ret, llm_calls, pass,
          arg, out, frames, solo>>

\* the variables of one run of the loop
loop_vars == <<iteration, required_tools, tools_used, tool_results,
               tool_calls_log, full_prompt, pc, ret, llm_calls, pass>>

\* the variables of the other specifications
other_vars == <<arg, out, frames, solo>>

(* ---------------------------------------------------------------- bounds *)
\* how many of the toolkit's tools are registered with the agent
NumTools == 3

\* self.max_iterations, the budget of passes that range(self.max_iterations)
\* reads: the agent is built with 15, the model runs the loop on a smaller
\* budget
max_iterations == 5

(* ------------------------------------------------------------- constants *)

None == "<None>"

\* MCPToolkit._discover_tools appends the tools in this order
ToolkitOrder ==
  <<"estimate_budget", "search_destination", "get_weather",
    "convert_currency", "calculate">>

\* self.tools = {tool.name: tool for tool in tools}
tools == {ToolkitOrder[i] : i \in 1..NumTools}

\* the preferred order of _suggest_next_tool
order ==
  <<"search_destination", "estimate_budget", "get_weather",
    "convert_currency", "calculate">>

(* ------------------------------------------------ completion responses *)
WS == {" ", "\n"}

\* what the completion capability writes after INPUT:
Inputs == {"Barcelona"}

\* the tool-name tokens a response may carry after ACTION:
\* registered names, a name of another letter case, a name of no tool
ActionWords == tools \cup {"Estimate_Budget", "book_flight"}

ActionResponse(a, i) == <<"ACTION:", " ", a, "\n", "INPUT:", " ", i>>

Responses ==
  {ActionResponse(a, i) : a \in ActionWords, i \in Inputs}
  \cup { ActionResponse("estimate_budget", "Barcelona")
           \o <<"\n", "FINAL ANSWER:", " ", "Enjoy">>,
         <<"FINAL ANSWER:", " ", "Enjoy", "\n">>,
         <<"I", " ", "think">>,
         <<"final answer:", " ", "Enjoy">>,
         <<"ACTION:", " ", "!!!", " ", "INPUT:", " ", "Barcelona">>,
         <<"ACTION:", " ", "estimate_budget">> }

\* marker in response
Contains(r, tok) == \E i \in DOMAIN r : r[i] = tok

\* str.upper(), on the tokens that spell a marker in lower case
Upper(tok) ==
  CASE tok = "final answer:" -> "FINAL ANSWER:"
    [] tok = "action:" -> "ACTION:"
    [] tok = "input:" -> "INPUT:"
    [] OTHER -> tok

\* "FINAL ANSWER" in response.upper()
UpperContainsFinal(r) == \E i \in DOMAIN r : Upper(r[i]) = "FINAL ANSWER:"

\* the \w+ a token starts with, None when it starts with no word character
LeadingWord(tok) ==
  CASE tok \in WS \cup {"!!!"} -> None
    [] Upper(tok) = "ACTION:" -> IF tok = "ACTION:" THEN "ACTION" ELSE "action"
    [] Upper(tok) = "INPUT:" -> IF tok = "INPUT:" THEN "INPUT" ELSE "input"
    [] Upper(tok) = "FINAL ANSWER:" -> IF tok = "FINAL ANSWER:" THEN "FINAL" ELSE "final"
    [] OTHER -> tok

\* index of the first token after position i that is not white space, 0 if none
SkipWS(r, i) ==
  LET js == {j \in DOMAIN r : j > i /\ r[j] \notin WS}
  IN  IF js = {} THEN 0 ELSE CHOOSE j \in js : \A k \in js : j <= k

\* re.search(r'ACTION:\s*(\w+)', response, re.IGNORECASE): the positions matching
ActionMatches(r) ==
  {i \in DOMAIN r : /\ Upper(r[i]) = "ACTION:"
                    /\ SkipWS(r, i) # 0
                    /\ LeadingWord(r[SkipWS(r, i)]) # None}

\* the name put in lower case before the lookup
ParseActionLower(r) ==
  IF ActionMatches(r) = {} THEN None
  ELSE LET i == CHOOSE i \in ActionMatches(r) : \A k \in ActionMatches(r) : i <= k
           w == LeadingWord(r[SkipWS(r, i)])
       IN  IF w = "Estimate_Budget" THEN "estimate_budget" ELSE w

\* .group(1) of the first match; None stands for the failed search, whose
\* .group raises AttributeError
ParseAction(r) ==
  IF ActionMatches(r) = {} THEN None
  ELSE LET i == CHOOSE i \in ActionMatches(r) : \A k \in ActionMatches(r) : i <= k
       IN  LeadingWord(r[SkipWS(r, i)])

\* str.strip() on a token sequence
RECURSIVE Strip(_)
Strip(s) ==
  IF s = <<>> THEN s
  ELSE IF Head(s) \in WS THEN Strip(Tail(s))
  ELSE IF s[Len(s)] \in WS THEN Strip(SubSeq(s, 1, Len(s) - 1))
  ELSE s

\* str.strip(chars) on a token sequence
RECURSIVE StripChars(_, _)
StripChars(s, chars) ==
  IF s = <<>> THEN s
  ELSE IF Head(s) \in chars THEN StripChars(Tail(s), chars)
  ELSE IF s[Len(s)] \in chars THEN StripChars(SubSeq(s, 1, Len(s) - 1), chars)
  ELSE s

\* the characters of the second strip of tool_input besides white space:
\* the backtick (written BACKTICK), the single and the double quote
Quotes == {"BACKTICK", "'", "\""}

\* the tokens that start with FINAL in either letter case
StartsWithFinal(tok) == Upper(tok) = "FINAL ANSWER:" \/ tok = "Finale"

\* re.search(r'INPUT:\s*(.+?)(?=\n|FINAL|$)', ...) then .strip() twice:
\* from the first token after the first INPUT: that is not white space up to
\* the next line end or FINAL, "" when the search fails or finds white space
ParseInput(r) ==
  LET ms == {i \in DOMAIN r : Upper(r[i]) = "INPUT:"}
  IN  IF ms = {} THEN <<>>
      ELSE LET i == CHOOSE i \in ms : \A k \in ms : i <= k
               j == SkipWS(r, i)
               stops == {k \in DOMAIN r :
                           k > j /\ (r[k] = "\n" \/ StartsWithFinal(r[k]))}
               e == IF stops = {} THEN Len(r) + 1
                    ELSE CHOOSE k \in stops : \A x \in stops : k <= x
           IN  IF j = 0 THEN <<>>
               ELSE StripChars(Strip(SubSeq(r, j, e - 1)), WS \cup Quotes)

\* response.split("FINAL ANSWER:")[1].strip()
SplitFinal(r) ==
  LET ms == {i \in DOMAIN r : r[i] = "FINAL ANSWER:"}
      i == CHOOSE i \in ms : \A k \in ms : i <= k
      later == {k \in ms : k > i}
      e == IF later = {} THEN Len(r) + 1
           ELSE CHOOSE k \in later : \A x \in later : k <= x
  IN  Strip(SubSeq(r, i + 1, e - 1))

\* what the loop reads off each response
Parsed ==
  [r \in Responses |->
     [final |-> Contains(r, "FINAL ANSWER:"),
      directive |-> Contains(r, "ACTION:") /\ Contains(r, "INPUT:"),
      upper_final |-> UpperContainsFinal(r),
      action |-> ParseAction(r),
      tool_input |-> ParseInput(r)]]

(* ------------------------------------------------------- tool adapters *)
\* what self.tools[action].run(tool_input) can do: return the formatted
\* answer of the back-end, return the "Error: ..." string the adapter makes
\* of a bad input, a status other than 200, a network error or a timeout,
\* or raise
AdapterOutcomes == {"data", "error_string", "raises"}

\* the string the adapter returns
ToolRun(action, tool_input, outcome) ==
  [tool |-> action, input |-> tool_input,
   text |-> IF outcome = "data" THEN "data" ELSE "Error"]

NoResult == [tool |-> None, input |-> <<>>, text |-> None]

(* ------------------------------------------------------------- dicts *)
\* a dict is the sequence of its items in insertion order
Keys(d) == {d[i][1] : i \in DOMAIN d}

DictGet(d, k) == LET i == CHOOSE i \in DOMAIN d : d[i][1] = k IN d[i][2]

\* d[k] = v
DictSet(d, k, v) ==
  IF k \in Keys(d)
  THEN [i \in DOMAIN d |-> IF d[i][1] = k THEN <<k, v>> ELSE d[i]]
  ELSE Append(d, <<k, v>>)

(* ------------------------------------------------------ prompt segments *)
\* a segment appended to full_prompt: the fixed text and the values the
\* f-string puts into it
Segment(text, action, obs, remaining, summary, next, response, ask) ==
  [text |-> text, action |-> action, obs |-> obs, remaining |-> remaining,
   summary |-> summary, next |-> next, response |-> response, ask |-> ask]

NoSegment == Segment("", None, NoResult, {}, <<>>, None, <<>>, "")

\* full_prompt before the loop (agent.py:125-141), in the order of the
\* f-string: the system prompt, the tools, the user's question, the sequence
\* of tools asked for
InitialPrompt ==
  <<Segment("self.system_prompt", None, NoResult, {}, <<>>, None, <<>>, ""),
    Segment("Available tools: tool_desc", None, NoResult, tools, <<>>, None, <<>>, ""),
    Segment("User question: user_request", None, NoResult, {}, <<>>, None, <<>>, ""),
    Segment("MANDATORY SEQUENCE - Call tools in this order: Start NOW with search_destination:",
            None, NoResult, {}, <<>>, "search_destination", <<>>, "ACTION: INPUT:")>>

\* full_prompt with the number of segments appended and the last of them;
\* text is the whole prompt where it is kept, and empty where it is not
PromptOf(text) == [segments |-> 0, last |-> NoSegment, text |-> text]

\* full_prompt = ..., the text replaced instead of extended
AppendSegmentReplacing(p, seg) ==
  [segments |-> p.segments + 1, last |-> seg,
   text |-> IF p.text = <<>> THEN <<>> ELSE <<seg>>]

\* full_prompt += ...
AppendSegment(p, seg) ==
  [segments |-> p.segments + 1, last |-> seg,
   text |-> IF p.text = <<>> THEN <<>> ELSE Append(p.text, seg)]

\* the suggestion taken in the order of registration
SuggestNextToolRegistered(required) ==
  LET inOrder == {i \in DOMAIN ToolkitOrder : ToolkitOrder[i] \in required}
  IN  IF inOrder # {}
      THEN {ToolkitOrder[CHOOSE i \in inOrder : \A k \in inOrder : i <= k]}
      ELSE IF required # {} THEN required ELSE {None}

\* _suggest_next_tool: the values it can return
SuggestNextTool(required) ==
  LET inOrder == {i \in DOMAIN order : order[i] \in required}
  IN  IF inOrder # {}
      THEN {order[CHOOSE i \in inOrder : \A k \in inOrder : i <= k]}
      ELSE IF required # {} THEN required ELSE {None}

(* --------------------------------------------------------------- passes *)
NoPass == [response |-> <<>>, branch |-> "none", invoked |-> None, outcome |-> None]

NoReturn == [output |-> [kind |-> None, text |-> <<>>, results |-> <<>>],
             tool_calls |-> <<>>]

\* the locals of invoke before the loop
LoopInit ==
  /\ iteration = 0
  /\ required_tools = tools
  /\ tools_used = <<>>
  /\ tool_results = <<>>
  /\ tool_calls_log = <<>>
  /\ full_prompt = PromptOf(<<>>)
  /\ pc = "loop"
  /\ ret = NoReturn
  /\ llm_calls = 0
  /\ pass = NoPass

\* no pure function applied
NoCall == arg = <<>> /\ out = <<>>

\* no second call of invoke
OneRun == frames = <<>> /\ solo = <<>>

Init == LoopInit /\ NoCall /\ OneRun

\* the loop without its bound
InLoopUnbounded == pc = "loop"

\* the loop making one pass too many
InLoopOneMore == pc = "loop" /\ iteration <= max_iterations

\* for iteration in range(self.max_iterations): response = self.llm.invoke(full_prompt)
InLoop == pc = "loop" /\ iteration < max_iterations

\* what every pass that goes on to the next one does
NextPass(r, branch, invoked, outcome) ==
  /\ iteration' = iteration + 1
  /\ llm_calls' = llm_calls + 1
  /\ pass' = [response |-> r, branch |-> branch, invoked |-> invoked, outcome |-> outcome]
  /\ UNCHANGED <<pc, ret>>
  /\ UNCHANGED other_vars

\* what every pass that returns does
Return(r, branch, output) ==
  /\ llm_calls' = llm_calls + 1
  /\ pass' = [response |-> r, branch |-> branch, invoked |-> None, outcome |-> None]
  /\ pc' = "done"
  /\ ret' = [output |-> output, tool_calls |-> tool_calls_log]
  /\ UNCHANGED <<iteration, required_tools, tools_used, tool_results,
                 tool_calls_log, full_prompt>>
  /\ UNCHANGED other_vars

\* the final-answer test made after the action test
IsFinalAfterAction(r) == Parsed[r].final /\ ~Parsed[r].directive

\* "FINAL ANSWER:" in response, the first test of a pass
IsFinal(r) == Parsed[r].final

\* if "FINAL ANSWER:" in response: return
FinalAnswer ==
  /\ InLoop
  /\ \E r \in Responses :
       /\ IsFinal(r)
       /\ Return(r, "final", [kind |-> "final", text |-> SplitFinal(r), results |-> <<>>])

TakesAction(r) == ~IsFinal(r) /\ Parsed[r].directive

\* the try block raises before a tool is looked up: the search for the action fails
ParseError ==
  /\ InLoop
  /\ \E r \in Responses :
       /\ TakesAction(r)
       /\ Parsed[r].action = None
       /\ full_prompt' = AppendSegment(full_prompt,
            Segment("Error parsing. You must use this exact format: ACTION: tool_name INPUT: value Try again.",
                    None, NoResult, {}, <<>>, None, <<>>, ""))
       /\ NextPass(r, "parse_error", None, None)
       /\ UNCHANGED <<required_tools, tools_used, tool_results, tool_calls_log>>

\* the correction listing the tools still required
UnknownToolCorrectionRemaining(action, required) ==
  Segment("Error: Unknown tool. Available: Try again with a valid tool.",
          action, NoResult, required, <<>>, None, <<>>, "")

\* the correction for a tool that is not registered
UnknownToolCorrection(action, required) ==
  Segment("Error: Unknown tool. Available: Try again with a valid tool.",
          action, NoResult, tools, <<>>, None, <<>>, "")

\* action in self.tools is false
UnknownTool ==
  /\ InLoop
  /\ \E r \in Responses :
       /\ TakesAction(r)
       /\ Parsed[r].action # None
       /\ Parsed[r].action \notin tools
       /\ full_prompt' = AppendSegment(full_prompt,
            UnknownToolCorrection(Parsed[r].action, required_tools))
       /\ NextPass(r, "unknown_tool", None, None)
       /\ UNCHANGED <<required_tools, tools_used, tool_results, tool_calls_log>>

\* the dispatch test without the required_tools test
MayDispatchAny(action) == action \in tools

\* the required_tools test given up once every tool was called
MayDispatchOnceMore(action) ==
  action \in tools /\ (action \in required_tools \/ required_tools = {})

\* whether the loop runs the tool the response names
MayDispatch(action) == action \in tools /\ action \in required_tools

\* the correction listing every registered tool
DuplicateCorrectionAll(action, required) ==
  Segment("Error: You already called. You cannot call the same tool twice. Remaining tools: Call a DIFFERENT tool now:",
          action, NoResult, tools, <<>>, None, <<>>, "")

\* the correction for a tool that was already called
DuplicateCorrection(action, required) ==
  Segment("Error: You already called. You cannot call the same tool twice. Remaining tools: Call a DIFFERENT tool now:",
          action, NoResult, required, <<>>, None, <<>>, "")

\* action in self.tools and action not in required_tools
DuplicateTool ==
  /\ InLoop
  /\ \E r \in Responses :
       /\ TakesAction(r)
       /\ Parsed[r].action \in tools
       /\ ~MayDispatch(Parsed[r].action)
       /\ full_prompt' = AppendSegment(full_prompt,
            DuplicateCorrection(Parsed[r].action, required_tools))
       /\ NextPass(r, "duplicate", None, None)
       /\ UNCHANGED <<required_tools, tools_used, tool_results, tool_calls_log>>

\* the observation without the summary of the results
ObservationNoSummary(result, required, results, next) ==
  IF required = {}
  THEN Segment("Observation: EXCELLENT! You have used ALL 5 required tools. ALL TOOL RESULTS:",
               None, result, {}, <<>>, None, <<>>,
               "Now you MUST provide your FINAL ANSWER using ONLY the actual data above. FINAL ANSWER:")
  ELSE Segment("Observation: Good! Remaining tools: Now call next:",
               None, result, required, <<>>, next, <<>>, "ACTION: INPUT:")

\* the text appended after a tool has run
Observation(result, required, results, next) ==
  IF required = {}
  THEN Segment("Observation: EXCELLENT! You have used ALL 5 required tools. ALL TOOL RESULTS:",
               None, result, {}, results, None, <<>>,
               "Now you MUST provide your FINAL ANSWER using ONLY the actual data above. FINAL ANSWER:")
  ELSE Segment("Observation: Good! Remaining tools: Now call next:",
               None, result, required, <<>>, next, <<>>, "ACTION: INPUT:")

\* the result recorded whether or not run raised
AcceptedAlways(outcome) == TRUE

\* whether the loop takes what run returned for the result of the tool
Accepted(outcome) == outcome # "raises"

\* the remaining tools computed from the registry
DiscardReset(required, action) == tools \ {action}

\* the tool left in the set
DiscardNothing(required, action) == required

\* required_tools.discard(action)
Discard(required, action) == required \ {action}

\* the loop variable as it stands, counted from 0
PassNumberFromZero(it) == it

\* "iteration": iteration + 1
PassNumber(it) == it + 1

\* self.tools[action].run(tool_input) returns
Dispatch ==
  /\ InLoop
  /\ \E r \in Responses, outcome \in AdapterOutcomes :
       LET action == Parsed[r].action
           tool_input == Parsed[r].tool_input
           result == ToolRun(action, tool_input, outcome)
       IN  /\ TakesAction(r)
           /\ MayDispatch(action)
           /\ Accepted(outcome)
           /\ tools_used' = Append(tools_used, action)
           /\ tool_results' = DictSet(tool_results, action, result)
           /\ required_tools' = Discard(required_tools, action)
           /\ tool_calls_log' = Append(tool_calls_log,
                [iteration |-> PassNumber(iteration), tool |-> action,
                 input |-> tool_input, result |-> result])
           /\ \E next \in SuggestNextTool(required_tools') :
                full_prompt' = AppendSegment(full_prompt,
                  Observation(result, required_tools', tool_results', next))
           /\ NextPass(r, "dispatch", action, outcome)

\* self.tools[action].run(tool_input) raises: except Exception
DispatchRaises ==
  /\ InLoop
  /\ \E r \in Responses, outcome \in AdapterOutcomes :
       /\ TakesAction(r)
       /\ MayDispatch(Parsed[r].action)
       /\ ~Accepted(outcome)
       /\ full_prompt' = AppendSegment(full_prompt,
            Segment("Error parsing. You must use this exact format: ACTION: tool_name INPUT: value Try again.",
                    None, NoResult, {}, <<>>, None, <<>>, ""))
       /\ NextPass(r, "dispatch_raises", Parsed[r].action, outcome)
       /\ UNCHANGED <<required_tools, tools_used, tool_results, tool_calls_log>>

NoDirective(r) == ~IsFinal(r) /\ ~Parsed[r].directive

\* the correction without the tools that are missing
MissingToolsCorrectionNoList(r, required) ==
  Segment("Your response: ERROR: You have NOT called all tools yet. Missing: You MUST call a tool using: Call the next required tool now:",
          None, NoResult, {}, <<>>, None, r, "ACTION: tool_name INPUT: value")

\* the correction for a response without directive while tools are missing
MissingToolsCorrection(r, required) ==
  Segment("Your response: ERROR: You have NOT called all tools yet. Missing: You MUST call a tool using: Call the next required tool now:",
          None, NoResult, required, <<>>, None, r, "ACTION: tool_name INPUT: value")

\* "FINAL ANSWER" not in response.upper() and len(required_tools) > 0
MissingTools ==
  /\ InLoop
  /\ \E r \in Responses :
       /\ NoDirective(r)
       /\ ~Parsed[r].upper_final
       /\ Cardinality(required_tools) > 0
       /\ full_prompt' = AppendSegment(full_prompt,
            MissingToolsCorrection(r, required_tools))
       /\ NextPass(r, "missing_tools", None, None)
       /\ UNCHANGED <<required_tools, tools_used, tool_results, tool_calls_log>>

\* only a response that spells the marker is taken for the answer
TakenAsAnswerMarked(r, required) ==
  Cardinality(required) = 0 /\ Parsed[r].upper_final

\* every response that reaches the test is taken for the answer
TakenAsAnswerAlways(r, required) == TRUE

\* whether a response without directive is taken for the answer
TakenAsAnswer(r, required) == Cardinality(required) = 0

\* elif len(required_tools) == 0: return
ImplicitAnswer ==
  /\ InLoop
  /\ \E r \in Responses :
       /\ NoDirective(r)
       /\ ~(~Parsed[r].upper_final /\ Cardinality(required_tools) > 0)
       /\ TakenAsAnswer(r, required_tools)
       /\ Return(r, "implicit", [kind |-> "implicit", text |-> r, results |-> <<>>])

\* else: full_prompt += response, "Now call the next required tool."
CallNextTool ==
  /\ InLoop
  /\ \E r \in Responses :
       /\ NoDirective(r)
       /\ ~(~Parsed[r].upper_final /\ Cardinality(required_tools) > 0)
       /\ ~TakenAsAnswer(r, required_tools)
       /\ full_prompt' = AppendSegment(full_prompt,
            Segment("Now call the next required tool.",
                    None, NoResult, {}, <<>>, None, r, ""))
       /\ NextPass(r, "call_next_tool", None, None)
       /\ UNCHANGED <<required_tools, tools_used, tool_results, tool_calls_log>>

\* the generic message whatever was gathered
FallbackOutputGeneric(results) ==
  [kind |-> "Could not complete within iteration limit.",
   text |-> <<>>, results |-> <<>>]

\* the answer after the loop
FallbackOutput(results) ==
  IF results # <<>>
  THEN [kind |-> "Could not generate complete answer in time, but gathered: Based on the tools used:",
        text |-> <<>>, results |-> results]
  ELSE [kind |-> "Could not complete within iteration limit.",
        text |-> <<>>, results |-> <<>>]

\* the for loop is used up
Exhausted ==
  /\ pc = "loop"
  /\ iteration >= max_iterations
  /\ pc' = "done"
  /\ ret' = [output |-> FallbackOutput(tool_results), tool_calls |-> tool_calls_log]
  /\ pass' = [response |-> <<>>, branch |-> "exhausted", invoked |-> None, outcome |-> None]
  /\ UNCHANGED <<iteration, required_tools, tools_used, tool_results,
                 tool_calls_log, full_prompt, llm_calls>>
  /\ UNCHANGED other_vars

Next ==
  \/ FinalAnswer
  \/ ParseError
  \/ UnknownTool
  \/ DuplicateTool
  \/ Dispatch
  \/ DispatchRaises
  \/ MissingTools
  \/ ImplicitAnswer
  \/ CallNextTool
  \/ Exhausted

Spec == Init /\ [][Next]_vars

\* each call of the completion capability and of an adapter returns
FairSpec == Spec /\ WF_vars(Next)

(* ------------------------------------------- two interleaved calls *)
\* Two calls of invoke on the one agent, run by two threads of which one
\* runs at a time. The loop variables are the locals of the call that is
\* running; frames.mem keeps the locals of each call in the frame of that
\* call while the other one runs; solo[i] is what call i had when it was
\* last suspended, kept apart from the frames.
Runs == {1, 2}

\* how many times the running call is changed
MaxSwitches == 2

\* how many passes of each call are followed
MaxRunPasses == 2

\* the responses of interleaved calls
TwoRunResponses ==
  {ActionResponse(a, i) : a \in tools, i \in Inputs}
    \cup {<<"FINAL ANSWER:", " ", "Enjoy", "\n">>, <<"I", " ", "think">>}

\* the locals of the running call
Locals ==
  [iteration |-> iteration, required_tools |-> required_tools,
   tools_used |-> tools_used, tool_results |-> tool_results,
   tool_calls_log |-> tool_calls_log, full_prompt |-> full_prompt,
   pc |-> pc, ret |-> ret, llm_calls |-> llm_calls, pass |-> pass]

\* the locals of a call that has not made a pass
Locals0 ==
  [iteration |-> 0, required_tools |-> tools,
   tools_used |-> <<>>, tool_results |-> <<>>,
   tool_calls_log |-> <<>>,
   full_prompt |-> PromptOf(<<>>),
   pc |-> "loop", ret |-> NoReturn, llm_calls |-> 0, pass |-> NoPass]

\* the locals kept on the agent, one frame for every call
FrameShared(i) == 1

\* the frame of the locals of call i: every call of invoke has its own
Frame(i) == i

TwoRunsInit ==
  /\ LoopInit /\ NoCall
  /\ frames = [cur |-> 1, switches |-> 0, mem |-> [f \in Runs |-> Locals0]]
  /\ solo = [i \in Runs |-> Locals0]

\* a pass, or the return, of the running call
RunStep ==
  /\ iteration < MaxRunPasses
  /\ Next
  /\ pass'.response \in TwoRunResponses \cup {<<>>}
  /\ pass'.outcome # "error_string"

\* the running call is suspended and the other one goes on
Switch ==
  /\ frames.switches < MaxSwitches
  /\ \E to \in Runs \ {frames.cur} :
       LET mem == [frames.mem EXCEPT ![Frame(frames.cur)] = Locals]
           resumed == mem[Frame(to)]
       IN  /\ frames' = [cur |-> to, switches |-> frames.switches + 1,
                         mem |-> mem]
           /\ iteration' = resumed.iteration
           /\ required_tools' = resumed.required_tools
           /\ tools_used' = resumed.tools_used
           /\ tool_results' = resumed.tool_results
           /\ tool_calls_log' = resumed.tool_calls_log
           /\ full_prompt' = resumed.full_prompt
           /\ pc' = resumed.pc
           /\ ret' = resumed.ret
           /\ llm_calls' = resumed.llm_calls
           /\ pass' = resumed.pass
  /\ solo' = [solo EXCEPT ![frames.cur] = Locals]
  /\ UNCHANGED <<arg, out>>

NextTwoRuns == RunStep \/ Switch

SpecTwoRuns == TwoRunsInit /\ [][NextTwoRuns]_vars

(* ------------------------------------------------ the whole transcript *)
\* how many passes of a run are followed with the whole text of full_prompt
MaxKeptPasses == 3

\* the locals of invoke before the loop, full_prompt with its text
TranscriptInit ==
  /\ iteration = 0
  /\ required_tools = tools
  /\ tools_used = <<>>
  /\ tool_results = <<>>
  /\ tool_calls_log = <<>>
  /\ full_prompt = PromptOf(InitialPrompt)
  /\ pc = "loop"
  /\ ret = NoReturn
  /\ llm_calls = 0
  /\ pass = NoPass
  /\ NoCall /\ OneRun

\* a pass of the run
TranscriptStep ==
  /\ iteration < MaxKeptPasses
  /\ Next

SpecTranscript == TranscriptInit /\ [][TranscriptStep]_vars

(* ------------------------------------------- final-answer extraction *)
\* the longest response, in tokens, of which the final answer is extracted
MaxTokens == 4

FinalTokens == {"FINAL ANSWER:", " ", "Enjoy", "\n"}

\* the responses with the marker, the only ones agent.py:153 is applied to
FinalResponses ==
  {r \in UNION {[1..k -> FinalTokens] : k \in 0..MaxTokens} :
     Contains(r, "FINAL ANSWER:")}

FinalInit ==
  /\ LoopInit /\ OneRun
  /\ arg \in FinalResponses
  /\ out = <<>>

\* final = response.split("FINAL ANSWER:")[1].strip()
ExtractFinal ==
  /\ out = <<>>
  /\ out' = <<SplitFinal(arg)>>
  /\ UNCHANGED <<arg, frames, solo>>
  /\ UNCHANGED loop_vars

SpecFinal == FinalInit /\ [][ExtractFinal]_vars

(* ------------------------------------------------- input extraction *)
\* the longest text, in tokens, a response carries after INPUT:
MaxInputTokens == 4

InputTokens == {" ", "\n", "Barcelona", "'", "Finale"}

\* responses with an action directive and without the final-answer marker,
\* the ones agent.py:163 is applied to
InputResponses ==
  {<<"ACTION:", " ", "search_destination", "\n", "INPUT:">> \o t :
     t \in UNION {[1..k -> InputTokens] : k \in 0..MaxInputTokens}}

InputInit ==
  /\ LoopInit /\ OneRun
  /\ arg \in InputResponses
  /\ out = <<>>

\* input_match = re.search(...); tool_input = ...strip(); tool_input.strip(...)
ExtractInput ==
  /\ out = <<>>
  /\ out' = <<ParseInput(arg)>>
  /\ UNCHANGED <<arg, frames, solo>>
  /\ UNCHANGED loop_vars

SpecInput == InputInit /\ [][ExtractInput]_vars

(* ------------------------------------------------ currency conversion *)
\* Amounts are counted in thousandths of a currency unit, rates in
\* hundredths, so that the arithmetic of convert_currency is exact in
\* integers; MaxAmount is the largest amount converted, in thousandths.
MaxAmount == 600

\* three of the rates of EXCHANGE_RATES, in hundredths
EXCHANGE_RATES == [USD |-> 100, EUR |-> 92, JPY |-> 14950]

\* codes of requests: known ones, one in lower case, an unknown one
Codes == {"USD", "EUR", "eur", "JPY", "XXX"}

\* str.upper() on the codes of Codes
upper(code) == IF code = "eur" THEN "EUR" ELSE code

\* EXCHANGE_RATES.get(code, 1.0)
Rate(code) ==
  IF code \in DOMAIN EXCHANGE_RATES THEN EXCHANGE_RATES[code] ELSE 100

\* round(num / den, 0) for den > 0: the nearest integer; a quotient half way
\* between two integers goes to either, because the float that is rounded
\* is only near the exact quotient
roundTruncated(num, den) == {num \div den}

round(num, den) ==
  LET q == num \div den
      r == num % den
  IN  IF 2 * r < den THEN {q}
      ELSE IF 2 * r > den THEN {q + 1}
      ELSE {q, q + 1}

\* the responses convert_currency may return for a request: converted_amount
\* is rounded to hundredths (and given in thousandths), exchange_rate to
\* ten-thousandths
convert_currency(request) ==
  LET from_curr == upper(request.from_currency)
      to_curr   == upper(request.to_currency)
      from_rate == Rate(from_curr)
      to_rate   == Rate(to_curr)
  IN  { [original_amount    |-> request.amount,
         original_currency  |-> from_curr,
         converted_amount   |-> 10 * c,
         converted_currency |-> to_curr,
         exchange_rate      |-> e] :
          c \in round(request.amount * to_rate, 10 * from_rate),
          e \in round(10000 * to_rate, from_rate) }

CurrencyInit ==
  /\ LoopInit /\ OneRun
  /\ arg \in [amount : (0 - MaxAmount)..MaxAmount,
              from_currency : Codes, to_currency : Codes]
  /\ out = <<>>

\* POST /tools/convert_currency with the request
Convert ==
  /\ out = <<>>
  /\ \E response \in convert_currency(arg) : out' = <<response>>
  /\ UNCHANGED <<arg, frames, solo>>
  /\ UNCHANGED loop_vars

\* POST /tools/convert_currency with the returned amount, the other way
ConvertBack ==
  /\ Len(out) = 1
  /\ \E response \in convert_currency(
          [amount        |-> out[1].converted_amount,
           from_currency |-> out[1].converted_currency,
           to_currency   |-> out[1].original_currency]) :
        out' = Append(out, response)
  /\ UNCHANGED <<arg, frames, solo>>
  /\ UNCHANGED loop_vars

NextCurrency == Convert \/ ConvertBack

SpecCurrency == CurrencyInit /\ [][NextCurrency]_vars

(* ---------------------------------------------------------- calculator *)
\* the longest expression calculated, in characters
MaxExpr == 3

\* characters of expressions: a digit, an operator, the space, two other
\* whitespace characters, a letter
Chars == {"1", "+", " ", "\t", "\n", "a"}

\* the members of the class [\d+\-*/().] among Chars
Allowed == {"1", "+"}

Expressions == UNION {[1..k -> Chars] : k \in 0..MaxExpr}

\* expression.replace(" ", "")
RemoveWhitespace(expression) ==
  SelectSeq(expression, LAMBDA c : c \notin {" ", "\t", "\n"})

RemoveSpaces(expression) ==
  SelectSeq(expression, LAMBDA c : c # " ")

\* re.match(r'^[\d+\-*/().]+$', expression): one or more characters of the
\* class up to the end of the string, or up to a newline that ends it ($)
Matches(expression) ==
  \E n \in 1..Len(expression) :
    /\ \A i \in 1..n : expression[i] \in Allowed
    /\ \/ n = Len(expression)
       \/ n = Len(expression) - 1 /\ expression[Len(expression)] = "\n"

\* what eval does with an expression that passed the filter; its arithmetic
\* is not modelled, any of its outcomes may follow
EvalOutcomes == {"value", "ZeroDivisionError", "Exception"}

\* the values of float(result)
EvalValues == {0, 2}

\* safe_eval as (result, success, error)
safe_eval(expression, outcome, value) ==
  LET stripped == RemoveSpaces(expression)
  IN  IF ~Matches(stripped)
        THEN [result |-> None, success |-> FALSE,
              error |-> "Invalid characters in expression"]
      ELSE IF outcome = "value"
        THEN [result |-> value, success |-> TRUE, error |-> None]
      ELSE IF outcome = "ZeroDivisionError"
        THEN [result |-> None, success |-> FALSE, error |-> "Division by zero"]
      ELSE [result |-> None, success |-> FALSE, error |-> "Calculation error"]

\* the CalculatorResponse of calculate
calculate(expression, outcome, value) ==
  LET r == safe_eval(expression, outcome, value)
  IN  [expression |-> expression,
       result     |-> IF r.success THEN r.result ELSE 0,
       success    |-> r.success,
       error      |-> r.error]

CalcInit ==
  /\ LoopInit /\ OneRun
  /\ arg \in Expressions
  /\ out = <<>>

\* POST /tools/calculate with the expression
Calculate ==
  /\ out = <<>>
  /\ \E outcome \in EvalOutcomes, value \in EvalValues :
       out' = <<calculate(arg, outcome, value)>>
  /\ UNCHANGED <<arg, frames, solo>>
  /\ UNCHANGED loop_vars

SpecCalc == CalcInit /\ [][Calculate]_vars

(* -------------------------------------------------- destination search *)
\* the longest destination searched, in characters
MaxDest == 6

\* characters of destinations: letters of catalog keys, a capital, the space
DestChars == {"t", "o", "k", "y", " ", "T"}

Destinations == UNION {[1..k -> DestChars] : k \in 0..MaxDest}

\* DESTINATIONS_DB in the order of the dict, keys as character sequences,
\* the names of the lists in ASCII letters
DESTINATIONS_DB ==
  <<
     [key |-> <<"p", "a", "r", "i", "s">>,
      data |-> [attractions |-> <<"Eiffel Tower", "Louvre Museum",
                                  "Notre-Dame Cathedral", "Arc de Triomphe">>,
               activities |-> <<"Seine River Cruise", "Wine Tasting",
                                "Cooking Classes",
                                "Shopping on Champs-Elysees">>,
               landmarks |-> <<"Sacre-Coeur", "Versailles Palace",
                               "Pantheon">>]],
     [key |-> <<"b", "a", "r", "c", "e", "l", "o", "n", "a">>,
      data |-> [attractions |-> <<"Sagrada Familia", "Park Guell",
                                  "Gothic Quarter", "Casa Batllo">>,
               activities |-> <<"Beach Activities", "Tapas Tours",
                                "Flamenco Shows", "Wine Tours">>,
               landmarks |-> <<"La Rambla", "Camp Nou", "Montjuic">>]],
     [key |-> <<"t", "o", "k", "y", "o">>,
      data |-> [attractions |-> <<"Tokyo Tower", "Senso-ji Temple",
                                  "Imperial Palace", "Shibuya Crossing">>,
               activities |-> <<"Sushi Making Class", "Tea Ceremony",
                                "Sumo Wrestling", "Karaoke">>,
               landmarks |-> <<"Mount Fuji", "Meiji Shrine",
                               "Tokyo Skytree">>]],
     [key |-> <<"n", "e", "w", " ", "y", "o", "r", "k">>,
      data |-> [attractions |-> <<"Statue of Liberty", "Central Park",
                                  "Times Square", "Empire State Building">>,
               activities |-> <<"Broadway Shows", "Museum Tours",
                                "Food Tours", "Shopping">>,
               landmarks |-> <<"Brooklyn Bridge", "One World Trade Center",
                               "Rockefeller Center">>]],
     [key |-> <<"l", "o", "n", "d", "o", "n">>,
      data |-> [attractions |-> <<"Big Ben", "Tower of London",
                                  "British Museum", "Buckingham Palace">>,
               activities |-> <<"Thames River Cruise", "Afternoon Tea",
                                "West End Shows", "Pub Tours">>,
               landmarks |-> <<"London Eye", "Tower Bridge",
                               "Westminster Abbey">>]],
     [key |-> <<"m", "o", "r", "o", "c", "c", "o">>,
      data |-> [attractions |-> <<"Marrakech Medina", "Hassan II Mosque",
                                  "Jardin Majorelle", "Bahia Palace">>,
               activities |-> <<"Desert Safari", "Hammam Experience",
                                "Cooking Classes", "Souk Shopping">>,
               landmarks |-> <<"Chefchaouen", "Fes Medina",
                               "Atlas Mountains">>]],
     [key |-> <<"s", "i", "d", "i", " ", "b", "e", "n", "n", "o", "u", "r">>,
      data |-> [attractions |-> <<"Local Markets",
                                  "Traditional Architecture",
                                  "Agricultural Sites">>,
               activities |-> <<"Cultural Tours", "Local Cuisine Tasting",
                                "Countryside Walks">>,
               landmarks |-> <<"Historic Center", "Regional Farmlands">>]]
  >>

\* the lists returned for a destination that matches no key
DefaultData ==
  [attractions |-> <<"Local Museums", "City Center", "Historical Sites">>,
   activities |-> <<"Cultural Tours", "Local Cuisine", "Walking Tours", "Shopping">>,
   landmarks |-> <<"Main Square", "Local Parks", "Historic Buildings">>]

\* str.lower() on the characters of DestChars
lower(s) == [i \in DOMAIN s |-> IF s[i] = "T" THEN "t" ELSE s[i]]

\* a in b, for strings
In(a, b) ==
  \E i \in 0..(Len(b) - Len(a)) : SubSeq(b, i + 1, i + Len(a)) = a

\* the match of one direction only
PartialMatchOneWay(key, destination) == In(key, destination)

\* key in destination or destination in key
PartialMatch(key, destination) == In(key, destination) \/ In(destination, key)

\* for key in DESTINATIONS_DB: the data of the first key from position k on
\* that matches, the default lists when the loop ends
RECURSIVE FirstPartial(_, _)
FirstPartial(destination, k) ==
  IF k > Len(DESTINATIONS_DB) THEN DefaultData
  ELSE IF PartialMatch(DESTINATIONS_DB[k].key, destination)
    THEN DESTINATIONS_DB[k].data
  ELSE FirstPartial(destination, k + 1)

\* the DestinationResponse of search_destination
search_destination(request) ==
  LET destination == Strip(lower(request.destination))
      exact == {k \in DOMAIN DESTINATIONS_DB : DESTINATIONS_DB[k].key = destination}
      data == IF exact # {}
                THEN DESTINATIONS_DB[CHOOSE k \in exact : TRUE].data
                ELSE FirstPartial(destination, 1)
  IN  [destination |-> request.destination,
       attractions |-> data.attractions,
       activities  |-> data.activities,
       landmarks   |-> data.landmarks]

SearchInit ==
  /\ LoopInit /\ OneRun
  /\ arg \in [destination : Destinations]
  /\ out = <<>>

\* POST /tools/search_destination with the request
Search ==
  /\ out = <<>>
  /\ out' = <<search_destination(arg)>>
  /\ UNCHANGED <<arg, frames, solo>>
  /\ UNCHANGED loop_vars

SpecSearch == SearchInit /\ [][Search]_vars

(* ------------------------------------------- the fallback suggestion *)
\* _suggest_next_tool on a registry with tools that are not in its list.
\* required_tools is a set of str; list(required_tools) follows the slots of
\* the set's hash table, which the hash seed of the interpreter process
\* places: every process may give the names another order, and discard
\* leaves the order of the names that remain.
ExtraTools == {"book_flight", "find_hotel", "rent_car"}

\* the orders in which a process may iterate the extra names
SetOrders ==
  {o \in [1..Cardinality(ExtraTools) -> ExtraTools] :
     \A i, j \in DOMAIN o : o[i] = o[j] => i = j}

\* the sets of tools that may remain: extra names and two names of the list
RequiredSets == SUBSET (ExtraTools \cup {"get_weather", "calculate"})

\* list(required_tools)[0] in a process that iterates in set_order
ListFirst(required, set_order) ==
  LET here == {i \in DOMAIN set_order : set_order[i] \in required}
  IN  set_order[CHOOSE i \in here : \A k \in here : i <= k]

\* _suggest_next_tool(tools_used, required_tools, user_request)
suggest_next_tool(required, set_order) ==
  LET inOrder == {i \in DOMAIN order : order[i] \in required}
  IN  IF inOrder # {}
        THEN order[CHOOSE i \in inOrder : \A k \in inOrder : i <= k]
      ELSE IF required # {} THEN ListFirst(required, set_order)
      ELSE None

\* two runs that have reached the same set, each in a process of its own
SuggestInit ==
  /\ LoopInit /\ OneRun
  /\ arg \in [required : RequiredSets, set_order : [Runs -> SetOrders]]
  /\ out = [i \in Runs |-> <<>>]

\* run i is given its suggestion
Suggest ==
  /\ \E i \in Runs :
       /\ out[i] = <<>>
       /\ out' = [out EXCEPT
                    ![i] = <<suggest_next_tool(arg.required, arg.set_order[i])>>]
  /\ UNCHANGED <<arg, frames, solo>>
  /\ UNCHANGED loop_vars

SpecSuggest == SuggestInit /\ [][Suggest]_vars

(* ---------------------------------------------------------------- claims *)
\* a pass has just been made on response r
Passed == llm_calls' = llm_calls + 1

GenericMessage == "Could not complete within iteration limit."

ParseCorrection ==
  "Error parsing. You must use this exact format: ACTION: tool_name INPUT: value Try again."

AnswerInstruction ==
  "Now you MUST provide your FINAL ANSWER using ONLY the actual data above. FINAL ANSWER:"

\* C1: required_tools never gains an element: every step leaves it a subset
\* of what it was, so its size never grows and a removed name stays out.
C1_RequiredToolsShrinks == [][required_tools' \subseteq required_tools]_vars

\* a removed tool was asked for again and the pass went on
C1_Witness ==
  /\ pass.branch = "duplicate"
  /\ Parsed[pass.response].action \notin required_tools
  /\ required_tools # {}

\* C2: the tool names of the call log, in order, contain no duplicates.
C2_NoDoubleDispatch ==
  \A i, j \in DOMAIN tool_calls_log :
    i # j => tool_calls_log[i].tool # tool_calls_log[j].tool

\* two tools were dispatched and one of them was then asked for again
C2_Witness ==
  /\ Len(tool_calls_log) >= 2
  /\ pass.branch = "duplicate"

\* C3: the completion capability is called at most max_iterations times and
\* every run ends with a returned value that carries the call log.
C3_ReturnsWithinMaxIterations ==
  /\ [](llm_calls <= max_iterations)
  /\ [](pc = "done" => ret # NoReturn /\ ret.tool_calls = tool_calls_log)
  /\ <>(pc = "done")

\* a run that used every pass and then returned
C3_Witness ==
  /\ pc = "done"
  /\ llm_calls = max_iterations
  /\ pass.branch = "exhausted"

\* C4: a pass whose adapter call fails (it raises, or it answers with the
\* error string it makes of a network error, a timeout, a status other than
\* 200 or a malformed input) leaves required_tools, tool_results and the call
\* log unchanged, appends a correction, and the tool stays required.
C4_AdapterFailureMutatesNothing ==
  [][(Passed /\ pass'.invoked # None /\ pass'.outcome # "data")
       => /\ UNCHANGED <<required_tools, tool_results, tool_calls_log>>
          /\ full_prompt'.last.text = ParseCorrection
          /\ pass'.invoked \in required_tools']_vars

\* C5: the text appended by the pass that empties required_tools carries the
\* result of every dispatch of the run, one per registered tool, and the
\* instruction to give the final answer.
C5_CompletionPrompt ==
  [][(Cardinality(required_tools) = 1 /\ required_tools' = {})
       => LET seg == full_prompt'.last
          IN  /\ full_prompt'.segments = full_prompt.segments + 1
              /\ Keys(seg.summary) = tools
              /\ \A k \in DOMAIN tool_calls_log' :
                   \E i \in DOMAIN seg.summary :
                     seg.summary[i] = <<tool_calls_log'[k].tool,
                                        tool_calls_log'[k].result>>
              /\ seg.ask = AnswerInstruction]_vars

\* the last required tool has just been dispatched
C5_Witness ==
  /\ pass.branch = "dispatch"
  /\ required_tools = {}
  /\ Len(tool_calls_log) = Cardinality(tools)

\* C6: with required_tools empty, a response with neither an action
\* directive nor the final-answer marker makes the pass return the raw
\* response and the call log as it stood, and the completion capability is
\* not called after a return.
C6_ImplicitAnswer ==
  [][/\ (Passed /\ required_tools = {} /\ ~Parsed[pass'.response].final
           /\ ~Parsed[pass'.response].directive)
          => /\ pc' = "done"
             /\ ret'.output.text = pass'.response
             /\ ret'.output.kind = "implicit"
             /\ ret'.tool_calls = tool_calls_log
             /\ UNCHANGED tool_calls_log
     /\ pc = "done" => llm_calls' = llm_calls]_vars

\* a response that spells no marker at all was returned as the answer
C6_Witness ==
  /\ pc = "done"
  /\ pass.branch = "implicit"
  /\ ~Parsed[pass.response].upper_final
  /\ ret.output.text = pass.response

\* C7: after the loop is used up the answer carries every result of
\* tool_results when a tool was dispatched, it is the generic message exactly
\* when none was, and the whole call log is returned.
C7_FallbackOnExhaustion ==
  pass.branch = "exhausted" =>
    /\ ret.tool_calls = tool_calls_log
    /\ (ret.output.kind = GenericMessage) <=> (tool_calls_log = <<>>)
    /\ \A i \in DOMAIN tool_results :
         \E k \in DOMAIN ret.output.results :
           ret.output.results[k] = tool_results[i]
    /\ \A k \in DOMAIN tool_calls_log :
         \E i \in DOMAIN ret.output.results :
           ret.output.results[i][2] = tool_calls_log[k].result

\* the loop was used up after a tool had been dispatched
C7_Witness ==
  /\ pass.branch = "exhausted"
  /\ tool_calls_log # <<>>
  /\ required_tools # {}

\* C8: a response with the marker FINAL ANSWER: makes the pass return a
\* final answer, no adapter is invoked in that pass even when the response
\* also carries ACTION: and INPUT:, whether or not required_tools is empty.
C8_FinalAnswerFirst ==
  [][(Passed /\ Parsed[pass'.response].final)
       => /\ pc' = "done"
          /\ ret'.output.kind = "final"
          /\ ret'.output.text = SplitFinal(pass'.response)
          /\ pass'.invoked = None
          /\ UNCHANGED <<required_tools, tool_results, tool_calls_log>>]_vars

\* a response with both directives ended a run that still required the
\* tool it names
C8_Witness ==
  /\ pc = "done"
  /\ pass.branch = "final"
  /\ Parsed[pass.response].directive
  /\ Parsed[pass.response].action \in required_tools

\* C9: the keys of tool_results are the registered tools that are no longer
\* required, and each value is the result of that tool's dispatch.
C9_ResultsOfRemovedTools ==
  /\ Keys(tool_results) = tools \ required_tools
  /\ \A k \in DOMAIN tool_calls_log :
       /\ tool_calls_log[k].tool \in Keys(tool_results)
       /\ DictGet(tool_results, tool_calls_log[k].tool) = tool_calls_log[k].result

\* some tools dispatched, some still required
C9_Witness ==
  /\ tool_results # <<>>
  /\ required_tools # {}
  /\ pass.branch = "dispatch"

\* C10: a pass whose action names no registered tool invokes no adapter,
\* leaves required_tools, tool_results and the call log unchanged, appends a
\* correction that lists every registered tool, and goes on.
C10_UnknownTool ==
  [][(/\ Passed
      /\ ~Parsed[pass'.response].final
      /\ Parsed[pass'.response].directive
      /\ Parsed[pass'.response].action # None
      /\ Parsed[pass'.response].action \notin tools)
       => /\ pass'.invoked = None
          /\ UNCHANGED <<required_tools, tool_results, tool_calls_log>>
          /\ full_prompt'.segments = full_prompt.segments + 1
          /\ full_prompt'.last.action = Parsed[pass'.response].action
          /\ full_prompt'.last.remaining = tools
          /\ pc' = "loop"
          /\ iteration' = iteration + 1]_vars

\* an unregistered tool was named after a registered one had been removed
C10_Witness ==
  /\ pass.branch = "unknown_tool"
  /\ required_tools # tools
  /\ full_prompt.last.remaining = tools

\* str.lower() on the tool-name tokens of the responses
Lower(w) == IF w = "Estimate_Budget" THEN "estimate_budget" ELSE w

\* the responses whose action token is the word w
Names(r, w) == \E i \in Inputs : r = ActionResponse(w, i)

\* the place of a tool in the fixed order
Pos(t) == CHOOSE i \in DOMAIN order : order[i] = t

DuplicateText ==
  "Error: You already called. You cannot call the same tool twice. Remaining tools: Call a DIFFERENT tool now:"

MissingText ==
  "Your response: ERROR: You have NOT called all tools yet. Missing: You MUST call a tool using: Call the next required tool now:"

\* C11: a pass whose action names a registered tool that is no longer
\* required invokes no adapter, leaves required_tools, tool_results and the
\* call log unchanged, and appends a correction that names the tool and lists
\* exactly the tools still required.
C11_DuplicateTool ==
  [][(/\ Passed
      /\ ~Parsed[pass'.response].final
      /\ Parsed[pass'.response].directive
      /\ Parsed[pass'.response].action \in tools \ required_tools)
       => /\ pass'.invoked = None
          /\ UNCHANGED <<required_tools, tool_results, tool_calls_log>>
          /\ full_prompt'.segments = full_prompt.segments + 1
          /\ full_prompt'.last.text = DuplicateText
          /\ full_prompt'.last.action = Parsed[pass'.response].action
          /\ full_prompt'.last.remaining = required_tools]_vars

\* a called tool was named again while other tools were still required
C11_Witness ==
  /\ pass.branch = "duplicate"
  /\ full_prompt.last.action \in tools \ required_tools
  /\ full_prompt.last.remaining = required_tools
  /\ required_tools # {}

\* C12 as stated: every response with neither ACTION: and INPUT: nor the
\* marker FINAL ANSWER: met while tools are required is answered with the
\* correction that lists the required tools and gives the format again, and
\* nothing but the transcript changes.
C12_UnparseableListsMissing ==
  [][(/\ Passed
      /\ required_tools # {}
      /\ ~Parsed[pass'.response].final
      /\ ~Parsed[pass'.response].directive)
       => /\ full_prompt'.last.text = MissingText
          /\ full_prompt'.last.remaining = required_tools
          /\ full_prompt'.last.ask = "ACTION: tool_name INPUT: value"
          /\ UNCHANGED <<required_tools, tool_results, tool_calls_log, pc, ret>>]_vars

\* C12 amended: the same for the responses that do not spell FINAL ANSWER in
\* any letter case; one that does, met while tools are required, is answered
\* with the response and "Now call the next required tool." without the list
\* of tools; in both cases nothing but the transcript changes.
C12_UnparseableAmended ==
  [][(/\ Passed
      /\ required_tools # {}
      /\ ~Parsed[pass'.response].final
      /\ ~Parsed[pass'.response].directive)
       => /\ UNCHANGED <<required_tools, tool_results, tool_calls_log, pc, ret>>
          /\ full_prompt'.segments = full_prompt.segments + 1
          /\ full_prompt'.last.response = pass'.response
          /\ IF Parsed[pass'.response].upper_final
             THEN /\ full_prompt'.last.text = "Now call the next required tool."
                  /\ full_prompt'.last.remaining = {}
             ELSE /\ full_prompt'.last.text = MissingText
                  /\ full_prompt'.last.remaining = required_tools
                  /\ full_prompt'.last.ask = "ACTION: tool_name INPUT: value"]_vars

\* a response without any marker was corrected after a tool had been called
C12_Witness ==
  /\ pass.branch = "missing_tools"
  /\ required_tools # tools
  /\ full_prompt.last.remaining = required_tools

\* C13: after a dispatch that leaves tools required, the tool named as next
\* is the one still required that comes first in the fixed order.
C13_NextToolByFixedOrder ==
  [][(Passed /\ pass'.branch = "dispatch" /\ required_tools' # {})
       => /\ full_prompt'.last.next \in required_tools'
          /\ \A t \in required_tools' :
               Pos(full_prompt'.last.next) <= Pos(t)
          /\ full_prompt'.last.remaining = required_tools']_vars

\* the tool registered first and the tool first in the fixed order are both
\* still required after a dispatch
C13_Witness ==
  /\ pass.branch = "dispatch"
  /\ {ToolkitOrder[1], order[1]} \subseteq required_tools
  /\ ToolkitOrder[1] # order[1]
  /\ full_prompt.last.next = order[1]

\* C14: the call log only grows, by one record at its end and only in a pass
\* whose adapter call returned; it has one record per item of tool_results
\* with that item's result; what a finished run returns is the whole log.
C14_CallLogAppendOnly ==
  /\ [][\/ UNCHANGED tool_calls_log
        \/ /\ Passed
           /\ pass'.invoked # None
           /\ pass'.outcome # "raises"
           /\ Len(tool_calls_log') = Len(tool_calls_log) + 1
           /\ SubSeq(tool_calls_log', 1, Len(tool_calls_log)) = tool_calls_log
           /\ tool_calls_log'[Len(tool_calls_log')].tool = pass'.invoked]_vars
  /\ [][(Passed /\ (pass'.invoked = None \/ pass'.outcome = "raises"))
          => UNCHANGED tool_calls_log]_vars
  /\ [](/\ Len(tool_calls_log) = Len(tool_results)
        /\ \A k \in DOMAIN tool_calls_log :
             \E i \in DOMAIN tool_results :
               tool_results[i] = <<tool_calls_log[k].tool, tool_calls_log[k].result>>)
  /\ [](pc = "done" => ret.tool_calls = tool_calls_log)

\* a finished run returned a log of two records after more passes than records
C14_Witness ==
  /\ pc = "done"
  /\ Len(ret.tool_calls) = 2
  /\ iteration > 2

\* the terminal states of a run
Answered ==
  /\ pc = "done"
  /\ pass.branch \in {"final", "implicit"}
  /\ ret.output.kind = pass.branch

ExhaustedState ==
  /\ pc = "done"
  /\ pass.branch = "exhausted"
  /\ llm_calls = max_iterations
  /\ ret.output.kind \notin {"final", "implicit", None}

\* C15: every run ends, in Answered or in Exhausted and not in both, and
\* stays there; Exhausted is reached only with the budget used up.
C15_TerminalStates ==
  /\ <>(pc = "done")
  /\ [](pc = "done" => (Answered \/ ExhaustedState) /\ ~(Answered /\ ExhaustedState))
  /\ [][pc = "done" => UNCHANGED vars]_vars

\* Exhausted reached after every tool had been called
C15_Witness ==
  /\ ExhaustedState
  /\ required_tools = {}

\* the other three ways into a terminal state
C15_AnsweredFromCollecting == Answered /\ required_tools # {}

C15_AnsweredFromAllToolsCalled ==
  Answered /\ required_tools = {} /\ pass.branch = "implicit"

C15_ExhaustedFromCollecting == ExhaustedState /\ required_tools # {}

\* C18 as stated: an action token that is a registered name up to letter
\* case is taken for that tool and not rejected as unknown.
C18_NameMatchedIgnoringCase ==
  [][(Passed /\ \E w \in ActionWords :
                  Names(pass'.response, w) /\ Lower(w) \in tools)
       => pass'.branch # "unknown_tool"]_vars

\* C18 amended: the lookup is by the exact name; a token that differs from a
\* registered name in letter case is rejected as an unknown tool, no adapter
\* is invoked, and the token itself is a registered name if the tool is
\* dispatched.
C18_NameMatchedExactly ==
  [][/\ (Passed /\ \E w \in ActionWords \ tools :
                     Names(pass'.response, w) /\ Lower(w) \in tools)
          => /\ pass'.branch = "unknown_tool"
             /\ pass'.invoked = None
             /\ UNCHANGED <<required_tools, tool_results, tool_calls_log>>
     /\ (Passed /\ pass'.invoked # None)
          => Names(pass'.response, pass'.invoked)]_vars

\* the name of a required tool in another letter case was rejected
C18_Witness ==
  /\ pass.branch = "unknown_tool"
  /\ Names(pass.response, "Estimate_Budget")
  /\ "estimate_budget" \in required_tools

\* C16: of two interleaved calls of invoke, a call that is resumed has the
\* required_tools, tool_results, call log, transcript and iteration counter
\* it had when it was suspended, whatever the other call did meanwhile; a
\* pass of the running call changes nothing of the suspended one; so a call
\* that has returned has the result of its own passes.
C16_RunIsolation ==
  /\ [][frames'.cur # frames.cur => Locals' = solo'[frames'.cur]]_vars
  /\ [][frames'.cur = frames.cur =>
          /\ solo' = solo
          /\ \A i \in Runs \ {frames.cur} :
               frames'.mem[Frame(i)] = frames.mem[Frame(i)]]_vars
  /\ [](\A i \in Runs \ {frames.cur} : frames.mem[Frame(i)] = solo[i])

\* both calls have returned, with different answers, the first one after
\* the second one ran in between
C16_Witness ==
  /\ frames.switches = 2
  /\ pc = "done"
  /\ Len(ret.tool_calls) = 1
  /\ solo[2].pc = "done"
  /\ solo[2].ret.tool_calls = <<>>
  /\ solo[1].iteration = 1

\* everything after the first marker of a response, stripped
AfterMarker(r) ==
  LET i == CHOOSE i \in DOMAIN r :
             r[i] = "FINAL ANSWER:" /\ \A k \in 1..(i - 1) : r[k] # "FINAL ANSWER:"
  IN  Strip(SubSeq(r, i + 1, Len(r)))

\* C17: the answer extracted from a response with the marker FINAL ANSWER:,
\* once or several times, is everything after the marker, stripped.
C17_FinalIsEverythingAfterMarker ==
  out # <<>> => out[1] = AfterMarker(arg)

\* how far the amount converted there and back is from the amount given,
\* in thousandths
RoundTripError ==
  IF out[2].converted_amount >= arg.amount
    THEN out[2].converted_amount - arg.amount
    ELSE arg.amount - out[2].converted_amount

\* C19 as stated: an amount converted from X to Y and back from Y to X is
\* within 0.01 of the amount, for all codes X and Y.
C19_RoundTripWithinCent ==
  Len(out) = 2 => RoundTripError <= 10

\* C19 amended: the amount converted from X to Y and back is within
\* 0.005 * (1 + rate(X) / rate(Y)) of the amount, the two roundings to
\* hundredths, the first one scaled by the rate of the way back.
C19_RoundTripWithinScaledTolerance ==
  Len(out) = 2 =>
    LET rateX == Rate(upper(arg.from_currency))
        rateY == Rate(upper(arg.to_currency))
    IN  RoundTripError * rateY <= 5 * (rateX + rateY)

\* an amount in yen came back from an unknown code (rate 1.0) more than 0.01 away
C19_Witness ==
  /\ Len(out) = 2
  /\ arg.from_currency = "JPY"
  /\ arg.to_currency = "XXX"
  /\ RoundTripError > 10

InvalidCharacters ==
  /\ out[1].success = FALSE
  /\ out[1].error = "Invalid characters in expression"
  /\ out[1].result = 0

\* C20 as stated: an expression with a character other than the allowed ones
\* and whitespace gets the invalid-characters error with success false and
\* result 0; an expression of allowed characters and whitespace of any kind
\* never gets the invalid-characters error.
C20_WhitespaceOfAnyKindAllowed ==
  out # <<>> =>
    IF \A i \in DOMAIN arg : arg[i] \in Allowed \cup {" ", "\t", "\n"}
      THEN out[1].error # "Invalid characters in expression"
      ELSE InvalidCharacters

\* the expressions the filter lets through, by position: allowed characters
\* and spaces, at least one allowed character, and at most a newline that
\* only spaces follow
PassesFilter ==
  /\ \E i \in DOMAIN arg : arg[i] \in Allowed
  /\ \A i \in DOMAIN arg :
       \/ arg[i] \in Allowed \cup {" "}
       \/ /\ arg[i] = "\n"
          /\ \A j \in (i + 1)..Len(arg) : arg[j] = " "

\* C20 amended: only the space character is removed before the test. An
\* expression of allowed characters and spaces with at least one allowed
\* character, optionally ended by one newline, never gets the
\* invalid-characters error; every other expression (a tab, a newline
\* elsewhere, a letter, nothing but spaces) gets it, with success false and
\* result 0.
C20_OnlySpacesRemoved ==
  out # <<>> =>
    IF PassesFilter
      THEN out[1].error # "Invalid characters in expression"
      ELSE InvalidCharacters

\* an expression with a tab between allowed characters was rejected
C20_Witness ==
  /\ out # <<>>
  /\ arg = <<"1", "\t", "+">>
  /\ InvalidCharacters

\* the lists of a response of search_destination
DataOf(response) ==
  [attractions |-> response.attractions,
   activities  |-> response.activities,
   landmarks   |-> response.landmarks]

\* the positions of the catalog keys equal to the lowercased, trimmed
\* destination, and of those containing it or contained in it
ExactKeys ==
  {k \in DOMAIN DESTINATIONS_DB :
     DESTINATIONS_DB[k].key = Strip(lower(arg.destination))}

PartialKeys ==
  {k \in DOMAIN DESTINATIONS_DB :
     \/ In(DESTINATIONS_DB[k].key, Strip(lower(arg.destination)))
     \/ In(Strip(lower(arg.destination)), DESTINATIONS_DB[k].key)}

\* C21: search_destination returns the entry of the key equal to the
\* lowercased, trimmed destination if there is one; otherwise the entry of
\* the first key, in catalog order, that contains the destination or is
\* contained in it; otherwise the generic lists; and the generic lists
\* exactly when no key matches by equality or containment.
C21_DestinationLookup ==
  out # <<>> =>
    /\ out[1].destination = arg.destination
    /\ ExactKeys # {} =>
         \E k \in ExactKeys : DataOf(out[1]) = DESTINATIONS_DB[k].data
    /\ ExactKeys = {} /\ PartialKeys # {} =>
         \E k \in PartialKeys :
           /\ \A j \in PartialKeys : k <= j
           /\ DataOf(out[1]) = DESTINATIONS_DB[k].data
    /\ DataOf(out[1]) = DefaultData <=> PartialKeys = {}

\* " yo" is in tokyo and in new york, and the entry of tokyo was returned
C21_Witness ==
  /\ out # <<>>
  /\ arg.destination = <<" ", "y", "o">>
  /\ out[1].attractions[1] = "Tokyo Tower"

\* C22: when required_tools is not empty and holds none of the five names
\* of the list, the tool suggested is a member of required_tools and the
\* same for two runs that have reached the same set.
C22_FallbackFunctionOfSet ==
  (/\ arg.required # {}
   /\ \A i \in DOMAIN order : order[i] \notin arg.required
   /\ \A i \in Runs : out[i] # <<>>)
    => /\ \A i \in Runs : out[i][1] \in arg.required
       /\ out[1] = out[2]

\* the texts of the segments the loop appends
AppendedTexts ==
  {DuplicateText, MissingText, ParseCorrection,
   "Error: Unknown tool. Available: Try again with a valid tool.",
   "Now call the next required tool.",
   "Observation: Good! Remaining tools: Now call next:",
   "Observation: EXCELLENT! You have used ALL 5 required tools. ALL TOOL RESULTS:"}

\* C23: the prompt of a pass is a strict prefix of the prompt of the next
\* pass; it starts with the system prompt, the tools and the user's question,
\* in that order; a pass that does not return appends exactly one correction
\* or observation, so the segments stand in the order of the passes.
C23_TranscriptAppendOnly ==
  /\ [][pc' = "loop" =>
          /\ Len(full_prompt'.text) = Len(full_prompt.text) + 1
          /\ SubSeq(full_prompt'.text, 1, Len(full_prompt.text)) = full_prompt.text
          /\ full_prompt'.text[Len(full_prompt'.text)] = full_prompt'.last
          /\ full_prompt'.last.text \in AppendedTexts]_vars
  /\ [][pc' = "done" => full_prompt'.text = full_prompt.text]_vars
  /\ [](/\ Len(full_prompt.text) = Len(InitialPrompt) + iteration
        /\ SubSeq(full_prompt.text, 1, Len(InitialPrompt)) = InitialPrompt)

\* an observation, a duplicate correction and an unknown-tool correction
\* stand behind the initial text in the order of their passes
C23_Witness ==
  /\ Len(full_prompt.text) = Len(InitialPrompt) + 3
  /\ full_prompt.text[Len(InitialPrompt) + 1].text
       = "Observation: Good! Remaining tools: Now call next:"
  /\ full_prompt.text[Len(InitialPrompt) + 2].text = DuplicateText
  /\ full_prompt.text[Len(InitialPrompt) + 3].text
       = "Error: Unknown tool. Available: Try again with a valid tool."

\* what stands between the first INPUT: and the end of its line
RestOfLine(r) ==
  LET ms == {i \in DOMAIN r : r[i] = "INPUT:"}
      i == CHOOSE i \in ms : \A k \in ms : i <= k
      ends == {k \in DOMAIN r : k > i /\ r[k] = "\n"}
      e == IF ends = {} THEN Len(r) + 1
           ELSE CHOOSE k \in ends : \A x \in ends : k <= x
  IN  SubSeq(r, i + 1, e - 1)

\* C24: the input handed to the adapter is the rest of the line on which
\* INPUT: stands, without the white space, backticks, quotes and line ends
\* around it; it is empty when nothing stands behind INPUT: on that line,
\* whatever the lines below hold.
C24_InputIsRestOfLine ==
  out # <<>> => out[1] = StripChars(RestOfLine(arg), WS \cup Quotes)

\* C25: while tools are still required, a pass returns only on a response
\* with the marker FINAL ANSWER: as it stands; every other response is
\* followed by the next pass (or by the end of the loop), and no response is
\* taken for an implicit answer.
C25_EarlyReturnOnlyOnMarker ==
  [][(pc = "loop" /\ required_tools # {} /\ llm_calls' = llm_calls + 1) =>
       /\ pass'.branch # "implicit"
       /\ IF Contains(pass'.response, "FINAL ANSWER:")
          THEN pc' = "done" /\ pass'.branch = "final"
          ELSE pc' = "loop" /\ iteration' = iteration + 1 /\ ret' = NoReturn]_vars

\* a run has returned on the marker before the loop was used up, with tools
\* still required
C25_Witness ==
  /\ pc = "done" /\ pass.branch = "final"
  /\ required_tools # {} /\ tool_calls_log # <<>>
  /\ iteration < max_iterations

Min(a, b) == IF a <= b THEN a ELSE b

\* C26: a pass invokes at most one adapter; the call log gains at most one
\* record in a pass, whose iteration field is the number of that pass counted
\* from 1; the iteration fields grow strictly along the log and lie in
\* 1..max_iterations; the log never holds more records than there are
\* registered tools or passes.
C26_OneDispatchPerPass ==
  /\ [][/\ Len(tool_calls_log') <= Len(tool_calls_log) + 1
         /\ tool_calls_log' # tool_calls_log =>
              /\ tool_calls_log' = Append(tool_calls_log,
                                          tool_calls_log'[Len(tool_calls_log')])
              /\ tool_calls_log'[Len(tool_calls_log')].iteration = llm_calls'
              /\ tool_calls_log'[Len(tool_calls_log')].tool = pass'.invoked
              /\ tools_used' = Append(tools_used, pass'.invoked)]_vars
  /\ [](\A i, j \in DOMAIN tool_calls_log :
          i < j => tool_calls_log[i].iteration < tool_calls_log[j].iteration)
  /\ [](\A i \in DOMAIN tool_calls_log :
          tool_calls_log[i].iteration \in 1..max_iterations)
  /\ [](Len(tool_calls_log) <= Min(Cardinality(tools), max_iterations))

\* every registered tool was dispatched, the first in the second pass and
\* the last in the last pass of the run
C26_Witness ==
  /\ Len(tool_calls_log) = Cardinality(tools)
  /\ tool_calls_log[1].iteration = 2
  /\ tool_calls_log[Len(tool_calls_log)].iteration = max_iterations

\* a response read as an action: no marker FINAL ANSWER:, both markers
\* ACTION: and INPUT:, a tool-name token behind ACTION:
ActionDirective(r) ==
  ~Parsed[r].final /\ Parsed[r].directive /\ Parsed[r].action # None

UnknownText == "Error: Unknown tool. Available: Try again with a valid tool."

\* C27: once required_tools is empty it stays empty; no later pass invokes an
\* adapter or changes tool_results, tools_used or the call log; a later
\* response read as an action is answered with the duplicate correction when
\* it names a registered tool and with the unknown-tool correction when it
\* does not, and the run goes on.
C27_AllToolsCalledAbsorbing ==
  [][required_tools = {} =>
       /\ required_tools' = {}
       /\ tool_results' = tool_results
       /\ tool_calls_log' = tool_calls_log
       /\ tools_used' = tools_used
       /\ llm_calls' = llm_calls + 1 =>
            /\ pass'.invoked = None
            /\ ActionDirective(pass'.response) =>
                 /\ pc' = "loop"
                 /\ full_prompt'.segments = full_prompt.segments + 1
                 /\ IF Parsed[pass'.response].action \in tools
                    THEN /\ pass'.branch = "duplicate"
                         /\ full_prompt'.last.text = DuplicateText
                    ELSE /\ pass'.branch = "unknown_tool"
                         /\ full_prompt'.last.text = UnknownText]_vars

\* every tool was called, then a called tool and a tool of no name in the
\* registry were asked for
C27_Witness ==
  /\ required_tools = {}
  /\ pass.branch = "unknown_tool"
  /\ full_prompt.segments = Cardinality(tools) + 2
  /\ Len(tool_calls_log) = Cardinality(tools)

====
